---- MODULE Spec2Model ----
(***************************************************************************)
(* mapAndValidate (src/src/map-and-validate.ts): extraction of named       *)
(* values out of a nested source object by path, with default and          *)
(* transform, followed by validation of the assembled object.              *)
(*                                                                         *)
(* JavaScript values are tagged records, so that values of different       *)
(* types can be compared.  A path is the sequence of segments lodash       *)
(* obtains from the dotted string ('users.0.name' is                       *)
(* <<"users", "0", "name">>); an array is an object whose keys are the     *)
(* index strings "0", "1", ...                                             *)
(***************************************************************************)
EXTENDS Integers, Sequences, FiniteSets, TLC

VARIABLES
    obj,        \* the source object (parameter obj)
    mapping,    \* the mapping definition (parameter mapping): key -> entry
    schema,     \* the schema (parameter schema)
    keys,       \* Object.keys(mapping): the order the loop visits the keys in
    idx,        \* position of the for loop in keys
    result,     \* the object being assembled (const result)
    parsed,     \* what schema.safeParse returned, NotCalled before the call
    ret,        \* what mapAndValidate returned, NoResult before it returns
    pc,         \* "loop", "parse", "return", "done" or "thrown"
    calls       \* history: the transform calls made, as <<key, argument>>

vars == <<obj, mapping, schema, keys, idx, result, parsed, ret, pc, calls>>

---------------------------------------------------------------------------
(* Bounds *)

\* The largest number of keys a mapping has.
MaxFields == 2

---------------------------------------------------------------------------
(* JavaScript values *)

Undefined == [t |-> "undefined"]
Null == [t |-> "null"]
NaN == [t |-> "NaN"]
Str(s) == [t |-> "string", s |-> s]
Num(n) == [t |-> "number", n |-> n]
Obj(f) == [t |-> "object", o |-> f]

IndexKey == <<"0", "1", "2">>

Arr(s) ==
    Obj([k \in {IndexKey[j] : j \in 1..Len(s)} |->
            s[CHOOSE j \in 1..Len(s) : IndexKey[j] = k]])

EmptyObject == [k \in {} |-> Undefined]

\* What a throwing call leaves in place of a value.
Thrown == [t |-> "throw"]
\* parsed before safeParse is called, ret before the function returns.
NotCalled == [t |-> "not called"]
NoResult == [t |-> "no result"]

---------------------------------------------------------------------------
(* _.get(obj, path, defaultVal) *)

RECURSIVE baseGet(_, _)
\* The value at path, Undefined as soon as a segment is not there: a key
\* the object lacks, or a value on the way (null, undefined, a string, a
\* number) that has no such property.
baseGet(object, path) ==
    IF path = <<>> THEN object
    ELSE IF object.t = "object" /\ Head(path) \in DOMAIN object.o
         THEN baseGet(object.o[Head(path)], Tail(path))
         ELSE Undefined

\* Variant: the default is not substituted.
get_noDefault(object, path, defaultValue) == baseGet(object, path)

get(object, path, defaultValue) ==
    LET value == baseGet(object, path)
    IN  IF value = Undefined THEN defaultValue ELSE value

---------------------------------------------------------------------------
(* The transforms a mapping entry may declare *)

\* The strings of the model and what String.prototype.toUpperCase makes
\* of each.
Strings ==
    {"Alice", "ALICE", "Bob", "BOB", "Carol", "CAROL", "25", "not-a-number",
     "NOT-A-NUMBER", "Unknown", "UNKNOWN", "NoName", "NONAME"}

toUpperCase ==
    [s \in Strings |->
        CASE s = "Alice" -> "ALICE"
          [] s = "Bob" -> "BOB"
          [] s = "Carol" -> "CAROL"
          [] s = "not-a-number" -> "NOT-A-NUMBER"
          [] s = "Unknown" -> "UNKNOWN"
          [] s = "NoName" -> "NONAME"
          [] OTHER -> s]

\* parseInt(v, 10): the number a string starts with, NaN when it starts
\* with none; a value that is no string is converted to a string first.
parseInt(v) ==
    CASE v.t = "string" -> IF v.s = "25" THEN Num(25) ELSE NaN
      [] v.t = "number" -> v
      [] OTHER -> NaN

\* transform(val), Thrown when the call throws: (v) => v.toUpperCase()
\* throws a TypeError on anything but a string.
ApplyTransform(transform, val) ==
    CASE transform = "toUpperCase" ->
            IF val.t = "string" THEN Str(toUpperCase[val.s]) ELSE Thrown
      [] transform = "parseInt" -> parseInt(val)

\* An entry with no transform has transform: undefined.
NoTransform == "undefined"

Transforms == {NoTransform, "toUpperCase", "parseInt"}

---------------------------------------------------------------------------
(* PathMapping and Mappings *)

PathMapping(path, default, transform) ==
    [t |-> "entry", path |-> path, default |-> default, transform |-> transform]

\* if (entry): an entry is an object or a falsy value.
Truthy(entry) == entry.t = "entry"

---------------------------------------------------------------------------
(* The loop body for one truthy entry *)

\* Variants of the loop body: transform applied before the default is
\* substituted, transform not applied.
MapEntry_transformFirst(object, entry) ==
    LET raw == baseGet(object, entry.path)
        out == IF entry.transform # NoTransform
               THEN ApplyTransform(entry.transform, raw) ELSE raw
    IN  [called |-> entry.transform # NoTransform,
         arg |-> raw,
         val |-> IF out = Undefined THEN entry.default ELSE out]

MapEntry_noTransform(object, entry) ==
    [called |-> FALSE, arg |-> Undefined,
     val |-> get(object, entry.path, entry.default)]

\* const { path, default: defaultVal, transform } = entry;
\* let val = _.get(obj, path, defaultVal);
\* if (transform) { val = transform(val); }
\* The value to store (Thrown when transform throws), whether transform
\* was called, and with what.
MapEntry(object, entry) ==
    LET val == get(object, entry.path, entry.default)
    IN  IF entry.transform # NoTransform
        THEN [called |-> TRUE, arg |-> val,
              val |-> ApplyTransform(entry.transform, val)]
        ELSE [called |-> FALSE, arg |-> Undefined, val |-> val]

\* Variants of the assignment: the object replaced by one that holds the
\* new key alone, an undefined value not stored.
Store_overwrite(object, key, val) == [k \in {key} |-> val]

Store_skipUndefined(object, key, val) ==
    IF val = Undefined THEN object
    ELSE [k \in DOMAIN object \cup {key} |-> IF k = key THEN val ELSE object[k]]

\* result[key] = val;
Store(object, key, val) ==
    [k \in DOMAIN object \cup {key} |-> IF k = key THEN val ELSE object[k]]

---------------------------------------------------------------------------
(* schema.safeParse(result), for the schemas z.object({ key: type, ... })  *)
(* with the types z.string(), z.number().int() and z.coerce.number()       *)

\* Number(v), as z.coerce.number() converts its input.
ToNumber(v) ==
    CASE v.t = "number" -> v
      [] v.t = "string" -> IF v.s = "25" THEN Num(25) ELSE NaN
      [] v.t = "null" -> Num(0)
      [] OTHER -> NaN

\* One field against its type: accepted with an output value, or not.
parseField(type, v) ==
    CASE type = "string" -> [ok |-> v.t = "string", out |-> v]
      [] type = "int" -> [ok |-> v.t = "number", out |-> v]
      [] type = "coerce" ->
            [ok |-> ToNumber(v).t = "number", out |-> ToNumber(v)]

\* input[key], undefined for a key that input does not have.
Field(input, key) == IF key \in DOMAIN input THEN input[key] ELSE Undefined

Issue(field) ==
    [code |-> "invalid_type", path |-> <<field.key>>, expected |-> field.type]

RECURSIVE issuesOf(_, _)
\* The issues of input, in the order of the schema's fields.
issuesOf(shape, input) ==
    IF shape = <<>> THEN <<>>
    ELSE (IF parseField(Head(shape).type, Field(input, Head(shape).key)).ok
          THEN <<>> ELSE <<Issue(Head(shape))>>)
         \o issuesOf(Tail(shape), input)

\* The object a z.object schema puts out: its own fields, each with the
\* output of its type; the keys the schema does not declare are dropped.
outputOf(shape, input) ==
    [k \in {shape[j].key : j \in 1..Len(shape)} |->
        LET f == shape[CHOOSE j \in 1..Len(shape) : shape[j].key = k]
        IN  parseField(f.type, Field(input, k)).out]

safeParse(shape, input) ==
    IF issuesOf(shape, input) = <<>>
    THEN [success |-> TRUE, data |-> Obj(outputOf(shape, input))]
    ELSE [success |-> FALSE, error |-> [issues |-> issuesOf(shape, input)]]

---------------------------------------------------------------------------
(* What mapAndValidate returns *)

\* Variants of the return statements: the assembled object as the value,
\* the first issue alone, a value alongside the issues.

ReturnValue_candidate(p) ==
    IF p.success
    THEN [data |-> Obj(result), isError |-> FALSE, errors |-> Undefined]
    ELSE [data |-> Undefined, isError |-> TRUE,
          errors |-> [t |-> "array", a |-> p.error.issues]]

ReturnValue_firstIssue(p) ==
    IF p.success
    THEN [data |-> p.data, isError |-> FALSE, errors |-> Undefined]
    ELSE [data |-> Undefined, isError |-> TRUE,
          errors |-> [t |-> "array", a |-> <<Head(p.error.issues)>>]]

ReturnValue_bothOnFailure(p) ==
    IF p.success
    THEN [data |-> p.data, isError |-> FALSE, errors |-> Undefined]
    ELSE [data |-> Obj(result), isError |-> TRUE,
          errors |-> [t |-> "array", a |-> p.error.issues]]

\* if (parsed.success) return { data: parsed.data, isError: false, ... }
\* else return { data: undefined, isError: true, errors: ...issues }
ReturnValue(p) ==
    IF p.success
    THEN [data |-> p.data, isError |-> FALSE, errors |-> Undefined]
    ELSE [data |-> Undefined, isError |-> TRUE,
          errors |-> [t |-> "array", a |-> p.error.issues]]

---------------------------------------------------------------------------
(* The inputs *)

FieldNames == {"name", "age", "email"}

User(name, age) == Obj([k \in {"name", "age"} |-> IF k = "name" THEN name ELSE age])

Sources ==
    { Obj([k \in {"user"} |-> User(Str("Alice"), Num(25))]),
      Obj([k \in {"user"} |-> User(Str("Alice"), Str("25"))]),
      Obj([k \in {"user"} |-> User(Str("Alice"), Str("not-a-number"))]),
      Obj([k \in {"user"} |-> Obj([k2 \in {"name"} |-> Null])]),
      Obj([k \in {"users"} |->
            Arr(<<User(Str("Bob"), Num(30)), User(Str("Carol"), Num(28))>>)]),
      Obj(EmptyObject) }

Entries ==
    { PathMapping(<<"user", "name">>, Str("Unknown"), NoTransform),
      PathMapping(<<"user", "name">>, Str("Unknown"), "toUpperCase"),
      PathMapping(<<"user", "name">>, Undefined, NoTransform),
      PathMapping(<<"user", "age">>, Num(0), NoTransform),
      PathMapping(<<"user", "age">>, Num(0), "parseInt"),
      PathMapping(<<"user", "age">>, Undefined, "toUpperCase"),
      PathMapping(<<"users", "1", "age">>, Num(0), NoTransform),
      PathMapping(<<"users", "2", "name">>, Str("NoName"), "toUpperCase") }

\* A mapping may hold a falsy value in place of an entry.
EntryValues == Entries \cup {Undefined}

SchemaField(key, type) == [key |-> key, type |-> type]

Schemas ==
    { <<>>,
      <<SchemaField("name", "string")>>,
      <<SchemaField("name", "string"), SchemaField("age", "int")>>,
      <<SchemaField("age", "coerce"), SchemaField("name", "string")>>,
      <<SchemaField("name", "string"), SchemaField("email", "string"),
        SchemaField("age", "int")>> }

Mappings ==
    UNION { [K -> EntryValues] :
              K \in {K \in SUBSET FieldNames : Cardinality(K) <= MaxFields} }

\* The orders Object.keys can list the keys of a mapping in.
KeyOrders(m) ==
    { o \in [1..Cardinality(DOMAIN m) -> DOMAIN m] :
        \A i, j \in 1..Cardinality(DOMAIN m) : i # j => o[i] # o[j] }

---------------------------------------------------------------------------
(* The state machine of one call *)

Init ==
    /\ obj \in Sources
    /\ mapping \in Mappings
    /\ schema \in Schemas
    /\ keys \in KeyOrders(mapping)
    /\ idx = 1
    /\ result = EmptyObject
    /\ parsed = NotCalled
    /\ ret = NoResult
    /\ pc = "loop"
    /\ calls = <<>>

InLoop == pc = "loop" /\ idx <= Len(keys)

Log(key, m) == IF m.called THEN Append(calls, <<key, m.arg>>) ELSE calls

\* if (entry) is false: nothing is done for the key.
SkipEntry ==
    /\ InLoop
    /\ ~Truthy(mapping[keys[idx]])
    /\ idx' = idx + 1
    /\ UNCHANGED <<obj, mapping, schema, keys, result, parsed, ret, pc, calls>>

\* The body of if (entry), transform returning.
MapField ==
    /\ InLoop
    /\ Truthy(mapping[keys[idx]])
    /\ LET m == MapEntry(obj, mapping[keys[idx]])
       IN  /\ m.val # Thrown
           /\ result' = Store(result, keys[idx], m.val)
           /\ calls' = Log(keys[idx], m)
    /\ idx' = idx + 1
    /\ UNCHANGED <<obj, mapping, schema, keys, parsed, ret, pc>>

\* The body of if (entry), transform throwing: the call ends there.
TransformThrows ==
    /\ InLoop
    /\ Truthy(mapping[keys[idx]])
    /\ LET m == MapEntry(obj, mapping[keys[idx]])
       IN  /\ m.val = Thrown
           /\ calls' = Log(keys[idx], m)
    /\ pc' = "thrown"
    /\ UNCHANGED <<obj, mapping, schema, keys, idx, result, parsed, ret>>

\* The loop body with the call of transform in a try block whose catch
\* goes on with the next key.
ThrowCaught ==
    /\ InLoop
    /\ Truthy(mapping[keys[idx]])
    /\ LET m == MapEntry(obj, mapping[keys[idx]])
       IN  /\ m.val = Thrown
           /\ calls' = Log(keys[idx], m)
    /\ idx' = idx + 1
    /\ UNCHANGED <<obj, mapping, schema, keys, result, parsed, ret, pc>>

Iterate_catch == SkipEntry \/ MapField \/ ThrowCaught

\* The loop body without if (entry): destructuring a falsy entry throws.
DestructureThrows ==
    /\ InLoop
    /\ ~Truthy(mapping[keys[idx]])
    /\ pc' = "thrown"
    /\ UNCHANGED <<obj, mapping, schema, keys, idx, result, parsed, ret, calls>>

Iterate_noGuard == DestructureThrows \/ MapField \/ TransformThrows

\* One pass of for (const key of Object.keys(mapping)).
Iterate == SkipEntry \/ MapField \/ TransformThrows

\* const parsed = schema.safeParse(result);
Parse ==
    /\ pc = "loop"
    /\ idx > Len(keys)
    /\ parsed' = safeParse(schema, result)
    /\ pc' = "parsed"
    /\ UNCHANGED <<obj, mapping, schema, keys, idx, result, ret, calls>>

\* The return statements.
Return ==
    /\ pc = "parsed"
    /\ ret' = ReturnValue(parsed)
    /\ pc' = "done"
    /\ UNCHANGED <<obj, mapping, schema, keys, idx, result, parsed, calls>>

Next == Iterate \/ Parse \/ Return

Spec == Init /\ [][Next]_vars

---------------------------------------------------------------------------
(* What the properties speak of *)

RECURSIVE Resolves(_, _)
\* path leads to a value of object that is there.
Resolves(object, path) ==
    IF path = <<>> THEN object # Undefined
    ELSE /\ object.t = "object"
         /\ Head(path) \in DOMAIN object.o
         /\ Resolves(object.o[Head(path)], Tail(path))

RECURSIVE ValueAt(_, _)
\* The value path leads to, for a path that resolves.
ValueAt(object, path) ==
    IF path = <<>> THEN object ELSE ValueAt(object.o[Head(path)], Tail(path))

ResolvedOrDefault(object, entry) ==
    IF Resolves(object, entry.path) THEN ValueAt(object, entry.path)
    ELSE entry.default

\* transform(v) where the entry declares a transform, v where it does not.
Transformed(entry, v) ==
    IF entry.transform = NoTransform THEN v
    ELSE ApplyTransform(entry.transform, v)

\* The object that has, for each mapping key, the value at the entry's
\* path, transformed when a transform is declared.
Projection ==
    [k \in DOMAIN mapping |->
        Transformed(mapping[k], ValueAt(obj, mapping[k].path))]

\* Every key has an entry whose path is in obj, no transform throws and the
\* schema accepts what is extracted.
FullMatch ==
    /\ \A k \in DOMAIN mapping :
          /\ Truthy(mapping[k])
          /\ Resolves(obj, mapping[k].path)
    /\ \A k \in DOMAIN mapping : Projection[k] # Thrown
    /\ issuesOf(schema, Projection) = <<>>

\* The schema declares every key of the mapping, none with a coercing type.
SchemaIsExact ==
    /\ DOMAIN mapping \subseteq {schema[j].key : j \in 1..Len(schema)}
    /\ \A j \in 1..Len(schema) : schema[j].type # "coerce"

IsSuccess(r) == r.isError = FALSE /\ r.data # Undefined /\ r.errors = Undefined
IsFailure(r) == r.isError = TRUE /\ r.data = Undefined /\ r.errors # Undefined

\* The keys the loop has been through.
Processed == {keys[j] : j \in 1..(idx - 1)}

TruthyKeys == {k \in DOMAIN mapping : Truthy(mapping[k])}

CallsOf(k) == {j \in 1..Len(calls) : calls[j][1] = k}

\* The call calls[j] threw.
Threw(j) ==
    ApplyTransform(mapping[calls[j][1]].transform, calls[j][2]) = Thrown

RECURSIVE CandidateIn(_, _)
\* The object the loop assembles going through the keys in the given
\* order, from acc on; Thrown when a transform throws on the way.
CandidateIn(order, acc) ==
    IF order = <<>> THEN acc
    ELSE IF ~Truthy(mapping[Head(order)]) THEN CandidateIn(Tail(order), acc)
    ELSE LET m == MapEntry(obj, mapping[Head(order)])
         IN  IF m.val = Thrown THEN Thrown
             ELSE CandidateIn(Tail(order), Store(acc, Head(order), m.val))

\* How the call ends with the keys in the given order.
OutcomeIn(order) ==
    LET c == CandidateIn(order, EmptyObject)
    IN  IF c = Thrown THEN Thrown ELSE ReturnValue(safeParse(schema, c))

---------------------------------------------------------------------------
(* The properties *)

\* C1: every Result returned is exactly one of the two variants: Success
\* (isError false, data present, errors absent) or Failure (isError true,
\* data absent, errors present).
C1_ResultIsOneVariant ==
    pc = "done" =>
        /\ ret # NoResult
        /\ IsSuccess(ret) # IsFailure(ret)

C1_Witness == pc = "done" /\ IsFailure(ret) /\ Len(ret.errors.a) > 0

\* C2 as stated: on a full match the call returns Success and the value is
\* the projection itself.
C2_ValueIsProjection ==
    (pc = "done" /\ FullMatch) =>
        (IsSuccess(ret) /\ ret.data = Obj(Projection))

\* C2 amended: on a full match the call returns Success with what the
\* validation puts out for the projection, which is the projection itself
\* when the schema declares every mapping key and coerces none.
C2_ValueIsValidatedProjection ==
    (pc = "done" /\ FullMatch) =>
        /\ IsSuccess(ret)
        /\ ret.data = safeParse(schema, Projection).data
        /\ SchemaIsExact => ret.data = Obj(Projection)

C2_Witness ==
    /\ pc = "done"
    /\ FullMatch
    /\ SchemaIsExact
    /\ Cardinality(DOMAIN mapping) = 2
    /\ \E k \in DOMAIN mapping : mapping[k].transform # NoTransform

\* C3: for an entry whose path does not resolve in obj, the value stored
\* under its key is the entry's default, or transform(default) when the
\* entry declares a transform.
C3_DefaultSubstitution ==
    \A k \in DOMAIN result :
        ~Resolves(obj, mapping[k].path) =>
            result[k] = Transformed(mapping[k], mapping[k].default)

C3_Witness ==
    \E k \in DOMAIN result :
        /\ ~Resolves(obj, mapping[k].path)
        /\ Len(mapping[k].path) = 3
        /\ "users" \in DOMAIN obj.o
        /\ mapping[k].transform # NoTransform
        /\ result[k] = Str("NONAME")

\* C4: when validation rejects, the issues of the Failure are exactly the
\* sequence the validation returned.
C4_IssuesPassThrough ==
    (pc = "done" /\ ~parsed.success) =>
        /\ ret.isError
        /\ ret.errors = [t |-> "array", a |-> parsed.error.issues]

C4_Witness ==
    pc = "done" /\ ~parsed.success /\ Len(ret.errors.a) >= 2

\* C5: when validation accepts, the value of the Success is what the
\* validation put out, not the object the loop assembled.
C5_ValueIsValidatorOutput ==
    (pc = "done" /\ parsed.success) =>
        (~ret.isError /\ ret.data = parsed.data)

C5_Witness ==
    pc = "done" /\ parsed.success /\ ret.data # Obj(result)

\* C6: transform is called exactly once for an entry that declares one,
\* with the resolved-or-defaulted value, never with undefined when the
\* entry declares a default; an entry without a transform keeps the
\* resolved-or-defaulted value.
C6_DefaultBeforeTransform ==
    \A j \in 1..Len(keys) :
        LET k == keys[j]
            e == mapping[k]
            reached == j < idx \/ (pc = "thrown" /\ j = idx)
        IN  /\ Cardinality(CallsOf(k)) =
                  IF reached /\ Truthy(e) /\ e.transform # NoTransform
                  THEN 1 ELSE 0
            /\ \A c \in CallsOf(k) :
                  /\ calls[c][2] = ResolvedOrDefault(obj, e)
                  /\ e.default # Undefined => calls[c][2] # Undefined
            /\ (j < idx /\ Truthy(e) /\ e.transform = NoTransform) =>
                  result[k] = ResolvedOrDefault(obj, e)

C6_Witness ==
    \E c \in 1..Len(calls) :
        /\ ~Resolves(obj, mapping[calls[c][1]].path)
        /\ calls[c][2] = mapping[calls[c][1]].default
        /\ calls[c][2] # Undefined

C8_CandidateKeysAreMappingKeys ==
    parsed # NotCalled => DOMAIN result = DOMAIN mapping

\* C8 amended: a value is stored for every key the loop has been through
\* whose entry is present, so the object handed to validation has exactly
\* the keys of the mapping whose entry is present; the call ends before
\* validation only when a transform throws.
C8_CandidateKeysAreEntryKeys ==
    /\ DOMAIN result = Processed \cap TruthyKeys
    /\ parsed # NotCalled => DOMAIN result = TruthyKeys
    /\ pc = "thrown" => (calls # <<>> /\ Threw(Len(calls)))

C8_Witness ==
    /\ parsed # NotCalled
    /\ DOMAIN result = DOMAIN mapping
    /\ \E k \in DOMAIN result :
          ~Resolves(obj, mapping[k].path) /\ result[k] = Undefined

\* C9: when a transform throws, the call ends there: no Result is
\* returned and the validation is never invoked.
C9_TransformFaultPropagates ==
    (pc = "thrown" \/ \E j \in 1..Len(calls) : Threw(j)) =>
        /\ pc = "thrown"
        /\ ret = NoResult
        /\ parsed = NotCalled

C9_Witness ==
    pc = "thrown" /\ idx < Len(keys) /\ Threw(Len(calls))

\* C10: a key whose entry is falsy is skipped: it gets no field in the
\* assembled object, nothing is thrown for it, and the other keys are
\* processed and validated as usual.
C10_FalsyEntrySkipped ==
    /\ \A k \in DOMAIN mapping : ~Truthy(mapping[k]) => k \notin DOMAIN result
    /\ pc = "thrown" => Truthy(mapping[keys[idx]])
    /\ pc = "loop" => Processed \cap TruthyKeys \subseteq DOMAIN result
    /\ parsed # NotCalled =>
          /\ TruthyKeys \subseteq DOMAIN result
          /\ parsed = safeParse(schema, result)

C10_Witness ==
    /\ pc = "done"
    /\ Len(keys) = 2
    /\ ~Truthy(mapping[keys[1]])
    /\ Truthy(mapping[keys[2]])
    /\ keys[2] \in DOMAIN result
    /\ keys[1] \notin DOMAIN result

====
